---- MODULE Spec2Model ----
(***************************************************************************)
(* Model of app/main.py of form-filler-ai: the inference client            *)
(* (query_huggingface), the answer pipeline (answer_questions) and the     *)
(* question extractor (extract_questions).                                 *)
(*                                                                         *)
(* Strings are sequences of one-character strings, so that len, slicing,   *)
(* strip and splitlines are computed and not assumed.                      *)
(***************************************************************************)
EXTENDS Integers, Sequences, FiniteSets, TLC

VARIABLES
    pc,         \* position: "extract", "extracted" (extract_questions); "start", "loop",
                \* "done" (answer_questions); "call", "returned" (query_huggingface);
                \* "render", "rendered" (generate_filled_pdf); "raised" (an exception propagates)
    text,       \* extract_questions: the text of the questions document
    questions,  \* the list of questions (output of extract_questions, input of answer_questions)
    ctxIn,      \* answer_questions: the context argument as given by the caller
    context,    \* answer_questions: the local `context` (reassigned by the truncation)
    i,          \* answer_questions: index of the for loop over questions (0-based)
    q,          \* answer_questions: the local `q` after strip
    qa_pairs,   \* answer_questions: the list of (question, answer) pairs
    attempt,    \* query_huggingface: the loop variable of `for attempt in range(max_retries)`
    trace,      \* query_huggingface: what the call did, until its pair is appended: requests with their outcome, and sleeps
    ret,        \* query_huggingface: the value the last call returned
    calls,      \* one record per finished query_huggingface call of the run
    log,        \* the run of answer_questions in order: calls started, calls returned, delays slept
    y,          \* generate_filled_pdf: the vertical cursor
    page,       \* generate_filled_pdf: the number of the page being drawn (from 1)
    drawn,      \* generate_filled_pdf: the lines drawn so far, each with its page, x, y and text
    saves,      \* generate_filled_pdf: the number of calls of c.save()
    rk,         \* generate_filled_pdf: the number of pairs drawn (index of the for loop)
    output_path, \* the path the document is written to
    files,      \* the file system: what each path holds
    tmpCount,   \* tempfile: the number of temporary names handed out
    qdoc,       \* fill_form: the uploaded questions document
    ddoc,       \* fill_form: the uploaded data document
    response,   \* fill_form: the response returned
    raising,    \* the exception that is propagating, "none" when there is none
    reqs        \* concurrent fill_form requests: the state of each

RenderVars == <<y, page, drawn, saves, rk>>

FillVars == <<output_path, files, tmpCount, qdoc, ddoc, response, raising>>

vars ==
    <<pc, text, questions, ctxIn, context, i, q, qa_pairs, attempt, trace, ret, calls, log,
      RenderVars, FillVars, reqs>>

\* what extract_questions, answer_questions and query_huggingface never touch
Untouched == <<RenderVars, FillVars, reqs>>

(***************************************************************************)
(* Bounds of the model.                                                    *)
(***************************************************************************)
MaxQuestions == 3
MaxLines == 3
MaxExtra == 3
MaxPairs == 50

(***************************************************************************)
(* Program constants.                                                      *)
(***************************************************************************)
max_retries == 3
ContextLimit == 4000
MinQuestionLen == 5
BackoffLoading == 20
BackoffRateLimited == 10
BackoffTimeout == 5
InterCallDelay == 1
PageHeight == 792
TopMargin == 50
LineStep == 15
PairGap == 20
MinMargin == 100
WrapWidth == 80
QuestionIndent == 30
ContinuationIndent == 50
MinContextLen == 50

Marker == <<".", ".", ".">>

Placeholder ==
    <<"U", "n", "a", "b", "l", "e", " ", "t", "o", " ", "f", "i", "n", "d", " ",
      "a", "n", "s", "w", "e", "r">>

EmptyStr == <<>>

(***************************************************************************)
(* String helpers: str.strip(), `"?" in line`, str.splitlines().           *)
(***************************************************************************)
Whitespace == {" ", "\t", "\n", "\r", "\f"}

RECURSIVE LStrip(_)
LStrip(s) ==
    IF s = <<>> THEN <<>>
    ELSE IF Head(s) \in Whitespace THEN LStrip(Tail(s)) ELSE s

RECURSIVE RStrip(_)
RStrip(s) ==
    IF s = <<>> THEN <<>>
    ELSE IF s[Len(s)] \in Whitespace THEN RStrip(SubSeq(s, 1, Len(s) - 1)) ELSE s

Strip(s) == RStrip(LStrip(s))

Contains(s, c) == \E k \in 1..Len(s) : s[k] = c

(***************************************************************************)
(* The remote endpoint: what one requests.post can end in.                 *)
(*   a response with a status code and, for 200, a body;                   *)
(*   or an exception raised by requests.post.                              *)
(***************************************************************************)
AnswerValues == {EmptyStr, <<"P">>}

NoBody == [json |-> "none", has |-> FALSE, answer |-> EmptyStr]

Bodies ==
    {[json |-> "dict", has |-> TRUE, answer |-> a] : a \in AnswerValues}
    \cup {[json |-> "dict", has |-> FALSE, answer |-> EmptyStr],   \* no "answer" key
          [json |-> "list", has |-> FALSE, answer |-> EmptyStr],   \* valid JSON, not an object
          [json |-> "invalid", has |-> FALSE, answer |-> EmptyStr]} \* not JSON

OtherStatuses == {404, 500}

TimeoutClasses == {"Timeout", "ReadTimeout", "ConnectTimeout"}

TransportExceptions == {"ReadTimeout", "ConnectionError"}

Outcomes ==
    {[kind |-> "response", status |-> s, body |-> NoBody, exc |-> "none"] :
        s \in {503, 429} \cup OtherStatuses}
    \cup {[kind |-> "response", status |-> 200, body |-> b, exc |-> "none"] : b \in Bodies}
    \cup {[kind |-> "exception", status |-> 0, body |-> NoBody, exc |-> e] :
        e \in TransportExceptions}

NoOutcome == [kind |-> "none", status |-> 0, body |-> NoBody, exc |-> "none"]

PostEvent(o) == [ev |-> "post", o |-> o, secs |-> 0]
SleepEvent(n) == [ev |-> "sleep", o |-> NoOutcome, secs |-> n]

(***************************************************************************)
(* query_huggingface, one iteration of `for attempt in range(max_retries)` *)
(***************************************************************************)
LoopHasNextOffByOne(a) == a <= max_retries

\* range(max_retries) yields another value
LoopHasNext(a) == a < max_retries

BackoffForLonger(status) == IF status = 503 THEN BackoffLoading + BackoffRateLimited ELSE BackoffRateLimited

\* the sleep of the 503 and 429 branches
BackoffFor(status) == IF status = 503 THEN BackoffLoading ELSE BackoffRateLimited

TimeoutSleepsAlways(a) == TRUE

\* `if attempt < max_retries - 1` of the Timeout handler
TimeoutSleeps(a) == a < max_retries - 1

CatchesTimeoutShadowed(handler, exc) == handler = "Exception"

\* which `except` clause catches which exception (class hierarchy of requests)
Catches(handler, exc) ==
    IF handler = "Timeout" THEN exc \in TimeoutClasses
    ELSE handler = "Exception"

\* result = response.json(); result.get("answer", "")
ParseAnswer(body) ==
    IF body.json = "invalid" THEN [raises |-> "JSONDecodeError", value |-> EmptyStr]
    ELSE IF body.json # "dict" THEN [raises |-> "AttributeError", value |-> EmptyStr]
    ELSE [raises |-> "none", value |-> IF body.has THEN body.answer ELSE EmptyStr]

Continue(sleeps) == [next |-> "continue", ret |-> EmptyStr, sleeps |-> sleeps]
ReturnValue(v) == [next |-> "return", ret |-> v, sleeps |-> <<>>]
Propagate == [next |-> "raise", ret |-> EmptyStr, sleeps |-> <<>>]

OnExceptionNarrow(a, exc) ==
    IF Catches("Timeout", exc)
    THEN IF TimeoutSleeps(a) THEN Continue(<<BackoffTimeout>>) ELSE Continue(<<>>)
    ELSE IF exc \in TransportExceptions THEN ReturnValue(EmptyStr)
    ELSE Propagate

\* the two except clauses of the try, in order
OnException(a, exc) ==
    IF Catches("Timeout", exc)
    THEN IF TimeoutSleeps(a) THEN Continue(<<BackoffTimeout>>) ELSE Continue(<<>>)
    ELSE IF Catches("Exception", exc) THEN ReturnValue(EmptyStr)
    ELSE Propagate

IterationGivesUpOnLoading(a, o) ==
    IF o.kind = "exception" THEN OnException(a, o.exc)
    ELSE IF o.status = 429 THEN Continue(<<BackoffFor(429)>>)
    ELSE IF o.status = 200
    THEN LET p == ParseAnswer(o.body)
         IN  IF p.raises = "none" THEN ReturnValue(p.value) ELSE OnException(a, p.raises)
    ELSE ReturnValue(EmptyStr)

IterationRetriesApiError(a, o) ==
    IF o.kind = "exception" THEN OnException(a, o.exc)
    ELSE IF o.status \in {503, 429} THEN Continue(<<BackoffFor(o.status)>>)
    ELSE IF o.status = 200
    THEN LET p == ParseAnswer(o.body)
         IN  IF p.raises = "none" THEN ReturnValue(p.value) ELSE OnException(a, p.raises)
    ELSE Continue(<<>>)

\* the body of the loop for the outcome o of requests.post
Iteration(a, o) ==
    IF o.kind = "exception" THEN OnException(a, o.exc)
    ELSE IF o.status = 503 THEN Continue(<<BackoffFor(503)>>)
    ELSE IF o.status = 429 THEN Continue(<<BackoffFor(429)>>)
    ELSE IF o.status = 200
    THEN LET p == ParseAnswer(o.body)
         IN  IF p.raises = "none" THEN ReturnValue(p.value) ELSE OnException(a, p.raises)
    ELSE ReturnValue(EmptyStr)

RECURSIVE SleepEvents(_)
SleepEvents(sleeps) ==
    IF sleeps = <<>> THEN <<>>
    ELSE <<SleepEvent(Head(sleeps))>> \o SleepEvents(Tail(sleeps))

Posts(tr) == SelectSeq(tr, LAMBDA e : e.ev = "post")

CallRecord(tr, v) == [q |-> q, context |-> context, requests |-> Len(Posts(tr)), ret |-> v]

ReturnEvent == [ev |-> "return", n |-> i]

AnswerLocals == <<text, questions, ctxIn, context, i, q, qa_pairs>>

Attempt(o) ==
    /\ pc = "call"
    /\ LoopHasNext(attempt)
    /\ attempt <= max_retries
    /\ LET r == Iteration(attempt, o)
           tr == (trace \o <<PostEvent(o)>>) \o SleepEvents(r.sleeps)
       IN  /\ trace' = tr
           /\ IF r.next = "continue"
              THEN /\ attempt' = attempt + 1
                   /\ UNCHANGED <<pc, ret, calls, log>>
              ELSE IF r.next = "return"
              THEN /\ pc' = "returned"
                   /\ ret' = r.ret
                   /\ calls' = Append(calls, CallRecord(tr, r.ret))
                   /\ log' = Append(log, ReturnEvent)
                   /\ UNCHANGED attempt
              ELSE /\ pc' = "raised"
                   /\ UNCHANGED <<attempt, ret, calls, log>>
    /\ UNCHANGED AnswerLocals
    /\ UNCHANGED Untouched

ModelLoading == \E o \in Outcomes : o.kind = "response" /\ o.status = 503 /\ Attempt(o)

RateLimited == \E o \in Outcomes : o.kind = "response" /\ o.status = 429 /\ Attempt(o)

Success == \E o \in Outcomes : o.kind = "response" /\ o.status = 200 /\ Attempt(o)

ApiError ==
    \E o \in Outcomes : o.kind = "response" /\ o.status \in OtherStatuses /\ Attempt(o)

RequestTimeout == \E o \in Outcomes : o.kind = "exception" /\ o.exc \in TimeoutClasses /\ Attempt(o)

RequestError ==
    \E o \in Outcomes : o.kind = "exception" /\ o.exc \notin TimeoutClasses /\ Attempt(o)

\* the loop is over: the final `return ""`
RetriesExhausted ==
    /\ pc = "call"
    /\ ~LoopHasNext(attempt)
    /\ pc' = "returned"
    /\ ret' = EmptyStr
    /\ calls' = Append(calls, CallRecord(trace, EmptyStr))
    /\ log' = Append(log, ReturnEvent)
    /\ UNCHANGED <<attempt, trace>>
    /\ UNCHANGED AnswerLocals
    /\ UNCHANGED Untouched

(***************************************************************************)
(* answer_questions                                                        *)
(***************************************************************************)
TruncateAtLimit(c) ==
    IF Len(c) >= ContextLimit THEN SubSeq(c, 1, ContextLimit) \o Marker ELSE c

\* if len(context) > 4000: context = context[:4000] + "..."
Truncate(c) ==
    IF Len(c) > ContextLimit THEN SubSeq(c, 1, ContextLimit) \o Marker ELSE c

PairForRaw(question, answer) == <<question, answer>>

\* (q, answer if answer else "Unable to find answer")
PairFor(question, answer) ==
    <<question, IF answer # EmptyStr THEN answer ELSE Placeholder>>

CleanedKeepsBlank(raw) == IF Strip(raw) = EmptyStr THEN raw ELSE Strip(raw)

\* q = q.strip()
Cleaned(raw) == Strip(raw)

NoDelayAfterPair == <<>>

\* time.sleep(1) after a pair is appended
DelayAfterPair == <<[ev |-> "delay", n |-> InterCallDelay]>>

QueryLocals == <<attempt, trace, ret>>

\* qa_pairs = []; the truncation of the context
TruncateContext ==
    /\ pc = "start"
    /\ context' = Truncate(context)
    /\ qa_pairs' = <<>>
    /\ i' = 0
    /\ pc' = "loop"
    /\ UNCHANGED <<text, questions, ctxIn, q, calls, log>>
    /\ UNCHANGED QueryLocals
    /\ UNCHANGED Untouched

\* a question that is empty after strip: `continue`
SkipEmpty ==
    /\ pc = "loop"
    /\ i < Len(questions)
    /\ Cleaned(questions[i + 1]) = EmptyStr
    /\ q' = Cleaned(questions[i + 1])
    /\ i' = i + 1
    /\ UNCHANGED <<pc, text, questions, ctxIn, context, qa_pairs, calls, log>>
    /\ UNCHANGED QueryLocals
    /\ UNCHANGED Untouched

\* answer = query_huggingface(q, context): the call is entered
CallQuery ==
    /\ pc = "loop"
    /\ i < Len(questions)
    /\ Cleaned(questions[i + 1]) # EmptyStr
    /\ q' = Cleaned(questions[i + 1])
    /\ attempt' = 0
    /\ trace' = <<>>
    /\ ret' = EmptyStr
    /\ log' = Append(log, [ev |-> "call", n |-> i])
    /\ pc' = "call"
    /\ UNCHANGED <<text, questions, ctxIn, context, i, qa_pairs, calls>>
    /\ UNCHANGED Untouched

\* qa_pairs.append(...); time.sleep(1); next question
AppendPair ==
    /\ pc = "returned"
    /\ qa_pairs' = Append(qa_pairs, PairFor(q, ret))
    /\ log' = log \o DelayAfterPair
    /\ i' = i + 1
    /\ pc' = "loop"
    /\ trace' = <<>>
    /\ UNCHANGED <<text, questions, ctxIn, context, q, calls, attempt, ret>>
    /\ UNCHANGED Untouched

\* return qa_pairs
ReturnPairs ==
    /\ pc = "loop"
    /\ i >= Len(questions)
    /\ pc' = "done"
    /\ UNCHANGED <<text, questions, ctxIn, context, i, q, qa_pairs, calls, log>>
    /\ UNCHANGED QueryLocals
    /\ UNCHANGED Untouched

(***************************************************************************)
(* Inputs of answer_questions and the specification of one run.            *)
(***************************************************************************)
SeqsUpTo(S, n) == UNION {[1..k -> S] : k \in 0..n}

QuestionSet ==
    {<<" ", "\t">>,
     <<" ", "a", "?", " ">>,
     <<"b", "?">>}

Alphabet == <<"x", "y", "z">>

MakeContext(n) == [k \in 1..n |-> Alphabet[(k % 3) + 1]]

ShortContexts == {MakeContext(MaxExtra)}

Paths == {"out.pdf", "tmp1", "tmp2"}

NoFile == <<"no file">>

NoDoc == [valid |-> FALSE, text |-> EmptyStr]

NoResponse == [status |-> 0, body |-> "none"]

\* the renderer, the request handler and the file system before anything has run
Idle ==
    /\ y = 0
    /\ page = 0
    /\ drawn = <<>>
    /\ saves = 0
    /\ rk = 0
    /\ output_path = "none"
    /\ files = [p \in Paths |-> NoFile]
    /\ tmpCount = 0
    /\ qdoc = NoDoc
    /\ ddoc = NoDoc
    /\ response = NoResponse
    /\ raising = "none"
    /\ reqs = <<>>

Init ==
    /\ pc = "start"
    /\ text = EmptyStr
    /\ questions \in SeqsUpTo(QuestionSet, MaxQuestions)
    /\ ctxIn \in ShortContexts
    /\ context = ctxIn
    /\ i = 0
    /\ q = EmptyStr
    /\ qa_pairs = <<>>
    /\ attempt = 0
    /\ trace = <<>>
    /\ ret = EmptyStr
    /\ calls = <<>>
    /\ log = <<>>
    /\ Idle

Next ==
    \/ TruncateContext
    \/ SkipEmpty
    \/ CallQuery
    \/ ModelLoading
    \/ RateLimited
    \/ Success
    \/ ApiError
    \/ RequestTimeout
    \/ RequestError
    \/ RetriesExhausted
    \/ AppendPair
    \/ ReturnPairs

Spec == Init /\ [][Next]_vars

(***************************************************************************)
(* What a call of query_huggingface did, read from its trace.              *)
(***************************************************************************)
Served == [k \in 1..Len(Posts(trace)) |-> Posts(trace)[k].o]

InCall == pc \in {"call", "returned", "raised"}

IsLoading(o) == o.kind = "response" /\ o.status = 503

IsRateLimited(o) == o.kind = "response" /\ o.status = 429

IsTimeout(o) == o.kind = "exception" /\ o.exc \in TimeoutClasses

IsTransient(o) == IsLoading(o) \/ IsRateLimited(o) \/ IsTimeout(o)

IsAnswer(o) == o.kind = "response" /\ o.status = 200 /\ o.body.json = "dict" /\ o.body.has

IsFatal(o) ==
    \/ o.kind = "response" /\ o.status \notin {200, 503, 429}
    \/ o.kind = "exception" /\ o.exc \notin TimeoutClasses

RECURSIVE SumSleeps(_)
SumSleeps(tr) ==
    IF tr = <<>> THEN 0
    ELSE (IF Head(tr).ev = "sleep" THEN Head(tr).secs ELSE 0) + SumSleeps(Tail(tr))

\* the number of requests among the first k events of the trace
PostsUpTo(k) == Len(Posts(SubSeq(trace, 1, k)))

(***************************************************************************)
(* C1: when the endpoint answers 503 N times in a row and then 200, for    *)
(* N < max_retries, the call retries exactly N times (N + 1 requests) and  *)
(* returns the "answer" field of the 200 response. As an invariant: while  *)
(* the endpoint has answered only 503, fewer than max_retries times, the   *)
(* call has not returned and is about to send another request; and when    *)
(* the 200 arrives after N 503s the call returns at once, on its attempt   *)
(* number N (counted from 0), with the answer of that response.            *)
(***************************************************************************)
C1_LoadingThenSuccess ==
    InCall =>
        LET s == Served
            n == Len(s) - 1
        IN  /\ (Len(s) < max_retries /\ \A k \in 1..Len(s) : IsLoading(s[k]))
                => (pc = "call" /\ attempt = Len(s) /\ attempt < max_retries)
            /\ (/\ Len(s) >= 1
                /\ n < max_retries
                /\ \A k \in 1..n : IsLoading(s[k])
                /\ IsAnswer(s[Len(s)]))
                => /\ pc = "returned"
                   /\ ret = s[Len(s)].body.answer
                   /\ attempt = n
                   /\ calls[Len(calls)].requests = n + 1
                   /\ SumSleeps(trace) = n * BackoffLoading

C1_Witness ==
    /\ pc = "returned"
    /\ Len(Served) = max_retries
    /\ IsLoading(Served[1]) /\ IsLoading(Served[2])
    /\ IsAnswer(Served[3])
    /\ Served[3].body.answer = <<"P">>
    /\ ret = <<"P">>

(***************************************************************************)
(* C2: when every attempt of a call ends in a transient failure (503, 429  *)
(* or timeout, in any mix), the call returns the empty string once the     *)
(* retry budget is used up, and no exception reaches the caller.           *)
(***************************************************************************)
C2_TransientExhaustion ==
    (InCall /\ \A k \in 1..Len(Served) : IsTransient(Served[k]))
        => /\ pc # "raised"
           /\ pc = "returned" => (ret = EmptyStr /\ Len(Served) = max_retries)
           /\ Len(Served) < max_retries => pc = "call"

C2_Witness ==
    /\ pc = "returned"
    /\ ret = EmptyStr
    /\ Len(Served) = max_retries
    /\ \E a, b, c \in 1..max_retries :
          IsLoading(Served[a]) /\ IsRateLimited(Served[b]) /\ IsTimeout(Served[c])

(***************************************************************************)
(* C3: whatever the endpoint does, one call sends at most max_retries      *)
(* requests; 503, 429 and timeouts draw from the one budget `attempt`.     *)
(***************************************************************************)
C3_AttemptBudget ==
    /\ Len(Posts(trace)) <= max_retries
    /\ attempt <= max_retries
    /\ \A k \in 1..Len(calls) : calls[k].requests <= max_retries
    /\ InCall =>
          Cardinality({k \in 1..Len(Served) : IsTransient(Served[k])}) <= max_retries

C3_Witness ==
    /\ pc = "returned"
    /\ Len(Served) = max_retries
    /\ IsTimeout(Served[1]) /\ IsRateLimited(Served[2]) /\ IsLoading(Served[3])
    /\ calls[Len(calls)].requests = max_retries

(***************************************************************************)
(* C4: a response whose status is not 200, 503 or 429, and a transport     *)
(* failure that is not a timeout, end the call at once: it is the last     *)
(* event of the call (no sleep, no further request) and the call returns   *)
(* the empty string, whatever the number of attempts left.                 *)
(***************************************************************************)
C4_FatalEndsCall ==
    \A k \in 1..Len(trace) :
        (trace[k].ev = "post" /\ IsFatal(trace[k].o))
            => /\ k = Len(trace)
               /\ pc = "returned"
               /\ ret = EmptyStr

C4_Witness ==
    /\ pc = "returned"
    /\ Len(trace) = 1
    /\ trace[1].ev = "post"
    /\ trace[1].o.kind = "exception"
    /\ IsFatal(trace[1].o)
    /\ attempt = 0
    /\ ret = EmptyStr

(***************************************************************************)
(* C5: a timeout on an attempt that is not the last is followed by a sleep *)
(* of 5 seconds and then by another request; a timeout on the last attempt *)
(* is followed by no sleep and no request, and the call returns "".        *)
(***************************************************************************)
C5_TimeoutBackoff ==
    \A k \in 1..Len(trace) :
        (trace[k].ev = "post" /\ IsTimeout(trace[k].o))
            => IF PostsUpTo(k) < max_retries
               THEN /\ Len(trace) >= k + 1
                    /\ trace[k + 1] = SleepEvent(BackoffTimeout)
                    /\ Len(trace) >= k + 2 => trace[k + 2].ev = "post"
                    /\ Len(trace) = k + 1 => (pc = "call" /\ attempt < max_retries)
               ELSE /\ k = Len(trace)
                    /\ pc \in {"call", "returned"}
                    /\ pc = "call" => (attempt = max_retries /\ ENABLED RetriesExhausted)
                    /\ pc = "returned" => ret = EmptyStr

C5_Witness ==
    /\ pc = "returned"
    /\ ret = EmptyStr
    /\ Len(Served) = max_retries
    /\ \A k \in 1..max_retries : IsTimeout(Served[k])
    /\ SumSleeps(trace) = (max_retries - 1) * BackoffTimeout

(***************************************************************************)
(* C6: the backoff sleeps of one call add up to at most 60 seconds.        *)
(***************************************************************************)
C6_TotalBackoff == SumSleeps(trace) <= 60

C6_Witness == pc = "returned" /\ SumSleeps(trace) = 60

(***************************************************************************)
(* What a run of answer_questions should pair, read from its input.        *)
(***************************************************************************)
NonBlank == {k \in 1..Len(questions) : Strip(questions[k]) # EmptyStr}

\* f maps the positions of a list of n entries onto the non-blank questions, in order
InOrder(f, n) ==
    /\ \A a, b \in 1..n : a < b => f[a] < f[b]
    /\ \A k \in NonBlank : \E a \in 1..n : f[a] = k

(***************************************************************************)
(* C7: answer_questions returns exactly one pair per question that is not  *)
(* empty after trimming, in the order of the input, duplicates included:   *)
(* the j-th pair holds the trimmed text of the j-th non-blank question.    *)
(***************************************************************************)
C7_OnePairPerQuestion ==
    pc = "done" =>
        /\ Len(qa_pairs) = Cardinality(NonBlank)
        /\ \E f \in [1..Len(qa_pairs) -> NonBlank] :
              /\ InOrder(f, Len(qa_pairs))
              /\ \A j \in 1..Len(qa_pairs) : qa_pairs[j][1] = Strip(questions[f[j]])

C7_Witness ==
    /\ pc = "done"
    /\ Len(questions) = 3
    /\ questions[1] = <<" ", "a", "?", " ">>
    /\ questions[2] = <<" ", "\t">>
    /\ questions[3] = questions[1]
    /\ Len(qa_pairs) = 2
    /\ qa_pairs[1][1] = <<"a", "?">>
    /\ qa_pairs[2][1] = <<"a", "?">>

(***************************************************************************)
(* C8: no failed answer aborts the batch. The run never ends in an         *)
(* exception and is never stuck before its end; at the end every non-blank *)
(* question has had its call, with at least one request sent, also after a *)
(* failed one, and every call that returned "" is paired with the          *)
(* placeholder (any other with what the call returned).                    *)
(***************************************************************************)
C8_FailureDoesNotAbort ==
    /\ pc # "raised"
    /\ pc = "done" \/ ENABLED Next
    /\ pc = "done" =>
          /\ Len(calls) = Cardinality(NonBlank)
          /\ Len(qa_pairs) = Len(calls)
          /\ \A k \in 1..Len(calls) :
                /\ calls[k].requests >= 1
                /\ qa_pairs[k][1] = calls[k].q
                /\ calls[k].ret = EmptyStr => qa_pairs[k][2] = Placeholder
                /\ calls[k].ret # EmptyStr => qa_pairs[k][2] = calls[k].ret

C8_Witness ==
    /\ pc = "done"
    /\ Len(calls) = 2
    /\ calls[1].ret = EmptyStr
    /\ calls[1].requests = max_retries
    /\ calls[2].ret = <<"P">>
    /\ qa_pairs[1][2] = Placeholder
    /\ qa_pairs[2][2] = <<"P">>

(***************************************************************************)
(* Runs of answer_questions on contexts around the truncation limit.       *)
(***************************************************************************)
LongContexts ==
    {MakeContext(n) :
        n \in {ContextLimit - 1, ContextLimit, ContextLimit + 1, ContextLimit + MaxExtra}}

ContextRunQuestions ==
    {<<(<<"b", "?">>)>>,
     <<(<<" ", "a", "?", " ">>), (<<"b", "?">>)>>}

InitContext ==
    /\ pc = "start"
    /\ text = EmptyStr
    /\ questions \in ContextRunQuestions
    /\ ctxIn \in ShortContexts \cup LongContexts
    /\ context = ctxIn
    /\ i = 0
    /\ q = EmptyStr
    /\ qa_pairs = <<>>
    /\ attempt = 0
    /\ trace = <<>>
    /\ ret = EmptyStr
    /\ calls = <<>>
    /\ log = <<>>
    /\ Idle

NextContext ==
    \/ TruncateContext
    \/ CallQuery
    \/ ModelLoading
    \/ RateLimited
    \/ Success
    \/ ApiError
    \/ RequestTimeout
    \/ RequestError
    \/ RetriesExhausted
    \/ AppendPair
    \/ ReturnPairs

SpecContext == InitContext /\ [][NextContext]_vars

(***************************************************************************)
(* C9: the context passed to every inference call of a run is the input    *)
(* context itself when its length is at most 4000, and is its first 4000   *)
(* characters followed by "..." when it is longer; every call of the run   *)
(* gets the same value.                                                    *)
(***************************************************************************)
PassedAsSpecified(c) ==
    IF Len(ctxIn) <= 4000
    THEN c = ctxIn
    ELSE /\ Len(c) = 4000 + 3
         /\ \A k \in 1..4000 : c[k] = ctxIn[k]
         /\ \A k \in 4001..4003 : c[k] = "."

C9_ContextTruncation ==
    /\ pc = "call" => PassedAsSpecified(context)
    /\ \A k \in 1..Len(calls) :
          /\ PassedAsSpecified(calls[k].context)
          /\ calls[k].context = calls[1].context

C9_Witness ==
    /\ pc = "done"
    /\ Len(ctxIn) = 4001
    /\ Len(calls) = 2
    /\ Len(calls[1].context) = 4003
    /\ calls[2].context = calls[1].context

(***************************************************************************)
(* extract_questions                                                       *)
(***************************************************************************)
LineBreaks == {"\n", "\r", "\f"}

\* text.splitlines(): cur is the line being read
RECURSIVE SplitFrom(_, _)
SplitFrom(s, cur) ==
    IF s = <<>> THEN (IF cur = <<>> THEN <<>> ELSE <<cur>>)
    ELSE IF Head(s) = "\r" /\ Len(s) >= 2 /\ s[2] = "\n"
    THEN <<cur>> \o SplitFrom(Tail(Tail(s)), <<>>)
    ELSE IF Head(s) \in LineBreaks THEN <<cur>> \o SplitFrom(Tail(s), <<>>)
    ELSE SplitFrom(Tail(s), Append(cur, Head(s)))

SplitLines(s) == SplitFrom(s, <<>>)

RetainedAnyLength(line) == Contains(line, "?")

RetainedUntrimmedLength(line) == Contains(line, "?") /\ Len(line) > MinQuestionLen

\* the condition of the comprehension: "?" in line and len(line.strip()) > 5
Retained(line) == Contains(line, "?") /\ Len(Strip(line)) > MinQuestionLen

\* [line.strip() for line in lines if ...]
RECURSIVE Comprehension(_)
Comprehension(lines) ==
    IF lines = <<>> THEN <<>>
    ELSE (IF Retained(Head(lines)) THEN <<Strip(Head(lines))>> ELSE <<>>)
         \o Comprehension(Tail(lines))

extract_questions(t) == Comprehension(SplitLines(t))

ExtractQuestions ==
    /\ pc = "extract"
    /\ questions' = extract_questions(text)
    /\ pc' = "extracted"
    /\ UNCHANGED <<text, ctxIn, context, i, q, qa_pairs, attempt, trace, ret, calls, log>>
    /\ UNCHANGED Untouched

(***************************************************************************)
(* Input texts of extract_questions: up to MaxLines lines, each ended or   *)
(* separated by a line break.                                              *)
(***************************************************************************)
LineSet ==
    {EmptyStr,
     <<"a", "b", "c", "d", "e", "f", "g">>,                 \* long enough, no "?"
     <<"a", "b", "c", "d", "?">>,                           \* 5 characters
     <<"a", "b", "c", "d", "e", "?">>,                      \* 6 characters
     <<" ", " ", "a", "b", "c", "?", " ">>,                 \* 7 characters, 4 when trimmed
     <<" ", "\t", "W", "h", "y", " ", "s", "o", "?", " ">>} \* 7 characters when trimmed

LineEnds == {<<"\n">>, <<"\r", "\n">>}

RECURSIVE JoinLines(_, _, _)
JoinLines(ls, end, last) ==
    IF ls = <<>> THEN <<>>
    ELSE IF Len(ls) = 1 THEN Head(ls) \o (IF last THEN end ELSE <<>>)
    ELSE (Head(ls) \o end) \o JoinLines(Tail(ls), end, last)

Texts ==
    {JoinLines(ls, end, last) :
        ls \in SeqsUpTo(LineSet, MaxLines), end \in LineEnds, last \in BOOLEAN}

\* the text "What is your name?\nRandom line.\nAge?"
ScenarioText ==
    <<"W", "h", "a", "t", " ", "i", "s", " ", "y", "o", "u", "r", " ", "n", "a", "m",
      "e", "?", "\n", "R", "a", "n", "d", "o", "m", " ", "l", "i", "n", "e", ".",
      "\n", "A", "g", "e", "?">>

WhatIsYourName ==
    <<"W", "h", "a", "t", " ", "i", "s", " ", "y", "o", "u", "r", " ", "n", "a", "m",
      "e", "?">>

AgeQuestion == <<"A", "g", "e", "?">>

InitExtract ==
    /\ pc = "extract"
    /\ text \in Texts \cup {ScenarioText}
    /\ questions = <<>>
    /\ ctxIn = EmptyStr
    /\ context = EmptyStr
    /\ i = 0
    /\ q = EmptyStr
    /\ qa_pairs = <<>>
    /\ attempt = 0
    /\ trace = <<>>
    /\ ret = EmptyStr
    /\ calls = <<>>
    /\ log = <<>>
    /\ Idle

NextExtract == ExtractQuestions

SpecExtract == InitExtract /\ [][NextExtract]_vars

(***************************************************************************)
(* C10: the output of the question extractor is exactly the trimmed lines  *)
(* that contain "?" and are longer than 5 characters when trimmed, in the  *)
(* order of the text, duplicates included.                                 *)
(***************************************************************************)
Qualifies(line) == (\E k \in 1..Len(line) : line[k] = "?") /\ Len(Strip(line)) > 5

C10_ExtractorFilter ==
    pc = "extracted" =>
        LET lines == SplitLines(text)
            kept == {k \in 1..Len(lines) : Qualifies(lines[k])}
        IN  /\ Len(questions) = Cardinality(kept)
            /\ \E f \in [1..Len(questions) -> kept] :
                  /\ \A a, b \in 1..Len(questions) : a < b => f[a] < f[b]
                  /\ \A j \in 1..Len(questions) : questions[j] = Strip(lines[f[j]])
            /\ \A j \in 1..Len(questions) :
                  /\ Qualifies(questions[j])
                  /\ questions[j] = Strip(questions[j])

C10_Witness ==
    /\ pc = "extracted"
    /\ Len(SplitLines(text)) = 3
    /\ SplitLines(text)[1] = <<" ", "\t", "W", "h", "y", " ", "s", "o", "?", " ">>
    /\ SplitLines(text)[2] = <<" ", " ", "a", "b", "c", "?", " ">>
    /\ SplitLines(text)[3] = <<"a", "b", "c", "d", "e", "?">>
    /\ questions = << <<"W", "h", "y", " ", "s", "o", "?">>, <<"a", "b", "c", "d", "e", "?">> >>

(***************************************************************************)
(* C11: the questions extracted from the three lines "What is your name?", *)
(* "Random line." and "Age?". As claimed: exactly the two questions        *)
(* "What is your name?" and "Age?", in that order (C11_TwoQuestions). As   *)
(* the extractor decides: "Age?" has 4 characters, which is not more than  *)
(* 5, so "What is your name?" is the only question (C11_OneQuestion).      *)
(***************************************************************************)
C11_TwoQuestions ==
    (pc = "extracted" /\ text = ScenarioText)
        => questions = <<WhatIsYourName, AgeQuestion>>

C11_OneQuestion ==
    (pc = "extracted" /\ text = ScenarioText)
        => /\ SplitLines(text)[3] = AgeQuestion
           /\ questions = <<WhatIsYourName>>

C11_Witness ==
    /\ pc = "extracted"
    /\ text = ScenarioText
    /\ Len(SplitLines(text)) = 3
    /\ Len(questions) = 1

(***************************************************************************)
(* generate_filled_pdf                                                     *)
(***************************************************************************)
\* [s[i:i+80] for i in range(0, len(s), 80)]
Wrap(s) ==
    [j \in 1..((Len(s) + WrapWidth - 1) \div WrapWidth) |->
        SubSeq(s, WrapWidth * (j - 1) + 1,
               IF WrapWidth * j < Len(s) THEN WrapWidth * j ELSE Len(s))]

\* y = height - 50
TopOfPage == PageHeight - TopMargin

NeedsNewPageLate(cursor) == cursor < TopMargin

\* if y < 100
NeedsNewPage(cursor) == cursor < MinMargin

QPrefix == <<"Q", ":", " ">>
APrefix == <<"A", ":", " ">>

\* c.drawString(x, y, text) while pair n is drawn
DrawString(pg, n, x, cursor, t) == [pair |-> n, page |-> pg, x |-> x, y |-> cursor, text |-> t]

\* the first segment with its prefix at x = 30, the others at x = 50, one per line from y0 down
SegmentLines(pg, n, prefix, segs, y0) ==
    [j \in 1..Len(segs) |->
        DrawString(pg, n,
                   IF j = 1 THEN QuestionIndent ELSE ContinuationIndent,
                   y0 - LineStep * (j - 1),
                   IF j = 1 THEN prefix \o segs[j] ELSE segs[j])]

\* one iteration of `for q, a in qa_pairs`, for pair number n drawn on page pg from cursor y0
PairLayout(pg, n, pair, y0) ==
    LET q_lines == Wrap(pair[1])
        a_lines == Wrap(pair[2])
        y1 == y0 - LineStep * Len(q_lines)
        y2 == (y1 - LineStep * Len(a_lines)) - PairGap
    IN  IF q_lines = <<>>
        THEN [raises |-> "IndexError", lines |-> <<>>, y |-> y0, newPage |-> FALSE]
        ELSE IF a_lines = <<>>
        THEN [raises |-> "IndexError", lines |-> SegmentLines(pg, n, QPrefix, q_lines, y0),
              y |-> y1, newPage |-> FALSE]
        ELSE [raises |-> "none",
              lines |-> SegmentLines(pg, n, QPrefix, q_lines, y0)
                        \o SegmentLines(pg, n, APrefix, a_lines, y1),
              y |-> IF NeedsNewPage(y2) THEN TopOfPage ELSE y2,
              newPage |-> NeedsNewPage(y2)]

NotRendering ==
    <<text, questions, ctxIn, context, i, q, qa_pairs, attempt, trace, ret, calls, log,
      output_path, tmpCount, qdoc, ddoc, response, reqs>>

\* c = canvas.Canvas(output_path, pagesize=letter); y = height - 50
BeginRender ==
    /\ pc = "render_begin"
    /\ y' = TopOfPage
    /\ page' = 1
    /\ drawn' = <<>>
    /\ saves' = 0
    /\ rk' = 0
    /\ pc' = "render"
    /\ UNCHANGED <<files, raising>>
    /\ UNCHANGED NotRendering

\* the body of the loop for the next pair
DrawPair ==
    /\ pc = "render"
    /\ rk < Len(qa_pairs)
    /\ LET r == PairLayout(page, rk + 1, qa_pairs[rk + 1], y)
       IN  /\ drawn' = drawn \o r.lines
           /\ y' = r.y
           /\ page' = IF r.newPage THEN page + 1 ELSE page
           /\ IF r.raises = "none"
              THEN /\ rk' = rk + 1
                   /\ UNCHANGED <<pc, raising>>
              ELSE /\ raising' = r.raises
                   /\ pc' = "raised"
                   /\ UNCHANGED rk
    /\ UNCHANGED <<saves, files>>
    /\ UNCHANGED NotRendering

\* c.save(): the document is written to output_path
Save ==
    /\ pc = "render"
    /\ rk >= Len(qa_pairs)
    /\ saves' = saves + 1
    /\ files' = [files EXCEPT ![output_path] = drawn]
    /\ pc' = "rendered"
    /\ UNCHANGED <<y, page, drawn, rk, raising>>
    /\ UNCHANGED NotRendering

\* c.save() when the file cannot be written
SaveFails ==
    /\ pc = "render"
    /\ rk >= Len(qa_pairs)
    /\ saves' = saves + 1
    /\ raising' = "OSError"
    /\ pc' = "raised"
    /\ UNCHANGED <<y, page, drawn, rk, files>>
    /\ UNCHANGED NotRendering

(***************************************************************************)
(* Inputs of generate_filled_pdf: up to MaxPairs short pairs, followed by  *)
(* at most one pair of another kind.                                       *)
(***************************************************************************)
MakeText(n) == [k \in 1..n |-> Alphabet[(k % 3) + 1]]

ShortPair == <<(<<"a", "?">>), (<<"P">>)>>

TailPairs ==
    {ShortPair,
     <<MakeText(WrapWidth + 1), MakeText(2 * WrapWidth + 1)>>,       \* 2 and 3 segments
     <<MakeText(5 * WrapWidth + 1), MakeText(4 * WrapWidth + 1)>>,   \* 6 and 5 segments
     <<(<<"a", "?">>), EmptyStr>>,
     <<EmptyStr, (<<"P">>)>>}

Repeat(p, n) == [k \in 1..n |-> p]

RenderInputs ==
    {Repeat(ShortPair, n) \o tail : n \in 0..MaxPairs, tail \in SeqsUpTo(TailPairs, 1)}

InitRender ==
    /\ pc = "render_begin"
    /\ text = EmptyStr
    /\ questions = <<>>
    /\ ctxIn = EmptyStr
    /\ context = EmptyStr
    /\ i = 0
    /\ q = EmptyStr
    /\ qa_pairs \in RenderInputs
    /\ attempt = 0
    /\ trace = <<>>
    /\ ret = EmptyStr
    /\ calls = <<>>
    /\ log = <<>>
    /\ y = 0
    /\ page = 0
    /\ drawn = <<>>
    /\ saves = 0
    /\ rk = 0
    /\ output_path = "out.pdf"
    /\ files = [p \in Paths |-> NoFile]
    /\ tmpCount = 0
    /\ qdoc = NoDoc
    /\ ddoc = NoDoc
    /\ response = NoResponse
    /\ raising = "none"
    /\ reqs = <<>>

NextRender ==
    \/ BeginRender
    \/ DrawPair
    \/ Save
    \/ SaveFails

SpecRender == InitRender /\ [][NextRender]_vars

(***************************************************************************)
(* C14: no page receives more lines than fit between the top cursor        *)
(* (height - 50) and the bottom edge at 15 points a line, and no line is   *)
(* drawn below the bottom edge of its page.                                *)
(***************************************************************************)
LinesOnPage(n) == {j \in 1..Len(drawn) : drawn[j].page = n}

C14_LinesFitPage ==
    /\ \A j \in 1..Len(drawn) : drawn[j].y >= 0
    /\ \A n \in 1..page : Cardinality(LinesOnPage(n)) <= ((792 - 50) \div 15) + 1

(***************************************************************************)
(* C17: whenever the cursor is below the minimum margin (100) after a pair *)
(* has been drawn, a new page is started and the cursor is back at         *)
(* height - 50 before the next pair is drawn, and otherwise the next pair  *)
(* goes on where the cursor is; hence every pair starts with the cursor at *)
(* or above the margin; and the document is saved exactly once, after the  *)
(* last pair.                                                              *)
(***************************************************************************)
LinesOfPair(n) == {j \in 1..Len(drawn) : drawn[j].pair = n}

FirstLine(n) == drawn[CHOOSE j \in LinesOfPair(n) : \A k \in LinesOfPair(n) : j <= k]

LastLine(n) == drawn[CHOOSE j \in LinesOfPair(n) : \A k \in LinesOfPair(n) : j >= k]

\* where the cursor is after pair n: one line and the gap below its last line
CursorAfter(n) == (LastLine(n).y - 15) - 20

C17_PageBreaks ==
    /\ \A n \in 1..rk :
          LET cur == CursorAfter(n)
              nextPage == IF cur < 100 THEN LastLine(n).page + 1 ELSE LastLine(n).page
              nextY == IF cur < 100 THEN 792 - 50 ELSE cur
          IN  /\ FirstLine(n).y >= 100
              /\ LinesOfPair(n + 1) # {} =>
                    (FirstLine(n + 1).page = nextPage /\ FirstLine(n + 1).y = nextY)
              /\ (n = rk /\ pc = "render") => (page = nextPage /\ y = nextY)
    /\ pc = "render" => y >= 100
    /\ saves <= 1
    /\ saves = 1 => (rk = Len(qa_pairs) /\ pc \in {"rendered", "raised"})
    /\ pc = "rendered" => (saves = 1 /\ files[output_path] = drawn)

C17_Witness ==
    /\ pc = "rendered"
    /\ saves = 1
    /\ Len(qa_pairs) = 50
    /\ rk = 50
    /\ page = 4
    /\ \E n \in 1..rk : CursorAfter(n) < 100 /\ FirstLine(n + 1).y = 742

(***************************************************************************)
(* C16: within one run of answer_questions the inference calls are         *)
(* sequential and follow the order of the questions: a call starts only    *)
(* after the call of the preceding non-blank question has returned and the *)
(* delay of 1 second after it has been slept; a question that is empty     *)
(* after trimming causes neither a call nor a delay.                       *)
(***************************************************************************)
CallEvents == {j \in 1..Len(log) : log[j].ev = "call"}

DelayEvents == {j \in 1..Len(log) : log[j].ev = "delay"}

C16_SequentialCalls ==
    /\ \A j \in 1..Len(log) :
          /\ log[j].ev = "call" =>
                /\ Strip(questions[log[j].n + 1]) # EmptyStr
                /\ j > 1 =>
                      /\ j > 3
                      /\ log[j - 1] = [ev |-> "delay", n |-> 1]
                      /\ log[j - 2].ev = "return"
                      /\ log[j - 2].n < log[j].n
          /\ log[j].ev = "return" =>
                (j > 1 /\ log[j - 1] = [ev |-> "call", n |-> log[j].n])
          /\ log[j].ev = "delay" => (j > 1 /\ log[j - 1].ev = "return")
    /\ trace # <<>> => (pc \in {"call", "returned"} /\ log # <<>>)
    /\ pc = "call" => log[Len(log)] = [ev |-> "call", n |-> i]
    /\ pc = "done" =>
          /\ {log[j].n + 1 : j \in CallEvents} = NonBlank
          /\ Cardinality(CallEvents) = Cardinality(NonBlank)
          /\ Cardinality(DelayEvents) = Cardinality(NonBlank)
          /\ Len(log) = 3 * Cardinality(NonBlank)

C16_Witness ==
    /\ pc = "done"
    /\ Len(questions) = 3
    /\ Strip(questions[1]) # EmptyStr
    /\ Strip(questions[2]) = EmptyStr
    /\ Strip(questions[3]) # EmptyStr
    /\ Len(log) = 6
    /\ log[4] = [ev |-> "call", n |-> 2]
    /\ log[3] = [ev |-> "delay", n |-> 1]

(***************************************************************************)
(* fill_form                                                               *)
(***************************************************************************)
\* extract_text_from_pdf_bytes: fitz.open raises on bytes that are not a PDF
ExtractText(doc) ==
    IF doc.valid THEN [raises |-> "none", text |-> doc.text]
    ELSE [raises |-> "FileDataError", text |-> EmptyStr]

\* if not questions
NoQuestions(qs) == qs = <<>>

ContextTooShortOffByOne(c) == Len(c) < MinContextLen - 1

\* if len(context) < 50
ContextTooShort(c) == Len(c) < MinContextLen

\* the exceptions of the request, all of them subclasses of Exception
ExceptionSubclasses == {"ValueError", "FileDataError", "IndexError", "OSError"}

BoundaryCatchesOSError(e) == e = "OSError"

\* except Exception as e, around the whole body of fill_form
BoundaryCatches(e) == e \in ExceptionSubclasses

AnswerState == <<i, q, qa_pairs, attempt, trace, ret, calls, log>>

\* questions_bytes = await questions_pdf.read(); data_bytes = await data_pdf.read()
\* (a read of an upload that is already closed raises ValueError)
ReadUploads ==
    /\ pc = "fill_read"
    /\ \E ok \in BOOLEAN :
          IF ok
          THEN /\ pc' = "fill_extract"
               /\ UNCHANGED raising
          ELSE /\ raising' = "ValueError"
               /\ pc' = "raised"
    /\ UNCHANGED <<text, questions, ctxIn, context, AnswerState, RenderVars, reqs>>
    /\ UNCHANGED <<output_path, files, tmpCount, qdoc, ddoc, response>>

\* questions = extract_questions(questions_bytes)
FillExtractQuestions ==
    /\ pc = "fill_extract"
    /\ LET r == ExtractText(qdoc)
       IN  IF r.raises = "none"
           THEN /\ text' = r.text
                /\ questions' = extract_questions(r.text)
                /\ pc' = "fill_check_questions"
                /\ UNCHANGED raising
           ELSE /\ raising' = r.raises
                /\ pc' = "raised"
                /\ UNCHANGED <<text, questions>>
    /\ UNCHANGED <<ctxIn, context, AnswerState, RenderVars, reqs>>
    /\ UNCHANGED <<output_path, files, tmpCount, qdoc, ddoc, response>>

\* no questions: the 400 response
NoQuestionsFound ==
    /\ pc = "fill_check_questions"
    /\ NoQuestions(questions)
    /\ response' = [status |-> 400, body |-> "No questions found in the PDF"]
    /\ pc' = "responded"
    /\ UNCHANGED <<text, questions, ctxIn, context, AnswerState, RenderVars, reqs>>
    /\ UNCHANGED <<output_path, files, tmpCount, qdoc, ddoc, raising>>

\* context = extract_text_from_pdf_bytes(data_bytes)
FillExtractContext ==
    /\ pc = "fill_check_questions"
    /\ ~NoQuestions(questions)
    /\ LET r == ExtractText(ddoc)
       IN  IF r.raises = "none"
           THEN /\ ctxIn' = r.text
                /\ context' = r.text
                /\ pc' = "fill_check_context"
                /\ UNCHANGED raising
           ELSE /\ raising' = r.raises
                /\ pc' = "raised"
                /\ UNCHANGED <<ctxIn, context>>
    /\ UNCHANGED <<text, questions, AnswerState, RenderVars, reqs>>
    /\ UNCHANGED <<output_path, files, tmpCount, qdoc, ddoc, response>>

\* not enough context: the 400 response
NotEnoughContext ==
    /\ pc = "fill_check_context"
    /\ ContextTooShort(context)
    /\ response' = [status |-> 400, body |-> "Not enough context found in the data PDF"]
    /\ pc' = "responded"
    /\ UNCHANGED <<text, questions, ctxIn, context, AnswerState, RenderVars, reqs>>
    /\ UNCHANGED <<output_path, files, tmpCount, qdoc, ddoc, raising>>

\* qa_pairs = answer_questions(questions, context): the call is entered
CallAnswerQuestions ==
    /\ pc = "fill_check_context"
    /\ ~ContextTooShort(context)
    /\ pc' = "start"
    /\ UNCHANGED <<text, questions, ctxIn, context, AnswerState, RenderVars, FillVars, reqs>>

TmpNameReused(n) == "tmp1"

\* tmp.name: a name no existing file has
TmpName(n) == IF n = 1 THEN "tmp1" ELSE "tmp2"

\* with tempfile.NamedTemporaryFile(delete=False, suffix=".pdf") as tmp: a new, empty file
MakeTempFile ==
    /\ pc = "done"
    /\ tmpCount' = tmpCount + 1
    /\ output_path' = TmpName(tmpCount + 1)
    /\ files' = [files EXCEPT ![TmpName(tmpCount + 1)] = <<>>]
    /\ pc' = "render_begin"
    /\ UNCHANGED <<text, questions, ctxIn, context, AnswerState, RenderVars, reqs>>
    /\ UNCHANGED <<qdoc, ddoc, response, raising>>

\* return FileResponse(output_path, ...)
SendFile ==
    /\ pc = "rendered"
    /\ response' = [status |-> 200, body |-> output_path]
    /\ pc' = "responded"
    /\ UNCHANGED <<text, questions, ctxIn, context, AnswerState, RenderVars, reqs>>
    /\ UNCHANGED <<output_path, files, tmpCount, qdoc, ddoc, raising>>

\* the exception reaches the except clause of fill_form: the 500 response with its message
CatchAtBoundary ==
    /\ pc = "raised"
    /\ IF BoundaryCatches(raising)
       THEN /\ response' = [status |-> 500, body |-> raising]
            /\ pc' = "responded"
       ELSE /\ pc' = "escaped"
            /\ UNCHANGED response
    /\ UNCHANGED <<text, questions, ctxIn, context, AnswerState, RenderVars, reqs>>
    /\ UNCHANGED <<output_path, files, tmpCount, qdoc, ddoc, raising>>

(***************************************************************************)
(* Uploads of fill_form and the specification of one request.              *)
(***************************************************************************)
TwoQuestionText ==
    <<"a", "b", "c", "d", "e", "?", "\n", "n", "o", "t", "e", "\n",
      " ", "\t", "W", "h", "y", " ", "s", "o", "?", " ", "\n">>

QuestionDocs ==
    {NoDoc} \cup {[valid |-> TRUE, text |-> t] :
                    t \in {EmptyStr, <<"n", "o", "t", "e", "s", ".">>, ScenarioText, TwoQuestionText}}

DataDocs ==
    {NoDoc} \cup {[valid |-> TRUE, text |-> MakeContext(n)] :
                    n \in {0, MinContextLen - 1, MinContextLen, MinContextLen + MaxExtra}}

InitFill ==
    /\ pc = "fill_read"
    /\ text = EmptyStr
    /\ questions = <<>>
    /\ ctxIn = EmptyStr
    /\ context = EmptyStr
    /\ i = 0
    /\ q = EmptyStr
    /\ qa_pairs = <<>>
    /\ attempt = 0
    /\ trace = <<>>
    /\ ret = EmptyStr
    /\ calls = <<>>
    /\ log = <<>>
    /\ y = 0
    /\ page = 0
    /\ drawn = <<>>
    /\ saves = 0
    /\ rk = 0
    /\ output_path = "none"
    /\ files = [p \in Paths |-> NoFile]
    /\ tmpCount = 0
    /\ qdoc \in QuestionDocs
    /\ ddoc \in DataDocs
    /\ response = NoResponse
    /\ raising = "none"
    /\ reqs = <<>>

NextFill ==
    \/ ReadUploads
    \/ FillExtractQuestions
    \/ NoQuestionsFound
    \/ FillExtractContext
    \/ NotEnoughContext
    \/ CallAnswerQuestions
    \/ TruncateContext
    \/ CallQuery
    \/ ModelLoading
    \/ RateLimited
    \/ Success
    \/ ApiError
    \/ RequestTimeout
    \/ RequestError
    \/ RetriesExhausted
    \/ AppendPair
    \/ ReturnPairs
    \/ MakeTempFile
    \/ BeginRender
    \/ DrawPair
    \/ Save
    \/ SaveFails
    \/ SendFile
    \/ CatchAtBoundary

SpecFill == InitFill /\ [][NextFill]_vars

ErrorMessages == {"No questions found in the PDF", "Not enough context found in the data PDF"}

\* extract_questions(questions_bytes) has returned
QuestionsExtracted ==
    /\ qdoc.valid
    /\ pc \notin {"fill_read", "fill_extract"}
    /\ raising # "ValueError"

\* extract_text_from_pdf_bytes(data_bytes) has returned
ContextExtracted ==
    /\ QuestionsExtracted
    /\ questions # <<>>
    /\ ddoc.valid
    /\ pc # "fill_check_questions"

NoInference == calls = <<>> /\ trace = <<>> /\ log = <<>>

\* C12: when fill_form extracts no questions, or extracts a context of fewer than 50
\* characters, the request goes nowhere but to its response, which has status 400 and
\* one of the two error messages, and no request to the endpoint (no post, no call of
\* query_huggingface, no delay) has been made.
C12_UserErrors ==
    (\/ QuestionsExtracted /\ questions = <<>>
     \/ ContextExtracted /\ Len(ddoc.text) < 50)
    => /\ NoInference
       /\ pc \in {"fill_check_questions", "fill_check_context", "responded"}
       /\ pc = "responded" => response.status = 400 /\ response.body \in ErrorMessages

C12_Witness ==
    /\ pc = "responded"
    /\ ContextExtracted
    /\ Len(ddoc.text) = 49
    /\ response = [status |-> 400, body |-> "Not enough context found in the data PDF"]
    /\ NoInference

\* an upload that is not a PDF has made the extraction fail
ParseFailed == raising = "FileDataError"

\* C13: when an upload is not a valid PDF and the extraction of its text fails, the
\* response has a 4xx status, and no inference request has been sent.
C13_ParseErrorIs4xx ==
    (pc = "responded" /\ ParseFailed)
    => /\ response.status \in 400..499
       /\ NoInference

\* C18: no exception leaves fill_form; an exception raised while reading, extracting,
\* answering or rendering is answered with status 500 and its message; the request
\* stops only at a response, whose status is 200, 400 or 500.
C18_NoEscape ==
    /\ pc # "escaped"
    /\ pc = "responded" => response.status \in {200, 400, 500}
    /\ (pc = "responded" /\ raising # "none") => response = [status |-> 500, body |-> raising]
    /\ (pc = "responded" /\ response.status = 500) => raising # "none"
    /\ (~ENABLED NextFill) => pc = "responded"

C18_Witness ==
    /\ pc = "responded"
    /\ saves = 1
    /\ raising = "OSError"
    /\ response = [status |-> 500, body |-> "OSError"]

(***************************************************************************)
(* answer_questions followed by generate_filled_pdf on its result, for     *)
(* every question list and every behaviour of the endpoint of Spec.        *)
(***************************************************************************)
NextPipeline ==
    \/ TruncateContext
    \/ SkipEmpty
    \/ CallQuery
    \/ ModelLoading
    \/ RateLimited
    \/ Success
    \/ ApiError
    \/ RequestTimeout
    \/ RequestError
    \/ RetriesExhausted
    \/ AppendPair
    \/ ReturnPairs
    \/ MakeTempFile
    \/ BeginRender
    \/ DrawPair
    \/ Save
    \/ SaveFails

SpecPipeline == Init /\ [][NextPipeline]_vars

\* C19: every pair of answer_questions has a non-empty question and a non-empty
\* answer, so both wrap to at least one segment, and the renderer running on these
\* pairs never raises IndexError at q_lines[0] or a_lines[0]; every pair drawn has
\* its "Q: " line and its "A: " line.
C19_PairsNonEmpty ==
    /\ \A k \in 1..Len(qa_pairs) :
          /\ qa_pairs[k][1] # EmptyStr
          /\ qa_pairs[k][2] # EmptyStr
          /\ Wrap(qa_pairs[k][1]) # <<>>
          /\ Wrap(qa_pairs[k][2]) # <<>>
    /\ raising # "IndexError"
    /\ pc \in {"render", "rendered"} =>
          \A k \in 1..rk : \E a, b \in 1..Len(drawn) :
              /\ a < b
              /\ drawn[a].pair = k /\ drawn[a].x = QuestionIndent
              /\ drawn[b].pair = k /\ drawn[b].x = QuestionIndent

C19_Witness ==
    /\ pc = "rendered"
    /\ \E k \in 1..Len(questions) : Strip(questions[k]) = EmptyStr
    /\ \E k \in 1..Len(qa_pairs) : qa_pairs[k][2] = Placeholder
    /\ rk = Len(qa_pairs)
    /\ Len(drawn) = 2 * Len(qa_pairs)
    /\ Len(qa_pairs) >= 2

(***************************************************************************)
(* Two requests served concurrently.  fill_form is a coroutine: it yields  *)
(* to the event loop at its two awaits only, and everything from the       *)
(* extraction to the return runs without yielding.  The file of a          *)
(* FileResponse is read when the framework sends the response, after the   *)
(* handler has returned.  The requests share the file system and the       *)
(* names tempfile hands out; the rest is local to each call.               *)
(***************************************************************************)
Requests == {1, 2}

\* what the k-th requests.post of a request ends in
OutcomeAt(script, k) == script[((k - 1) % Len(script)) + 1]

\* query_huggingface as a function of the outcomes of its posts; used posts were sent before
RECURSIVE QueryFrom(_, _, _)
QueryFrom(script, used, a) ==
    IF ~LoopHasNext(a) THEN [ret |-> EmptyStr, used |-> used]
    ELSE LET r == Iteration(a, OutcomeAt(script, used + 1))
         IN  IF r.next = "continue" THEN QueryFrom(script, used + 1, a + 1)
             ELSE [ret |-> r.ret, used |-> used + 1]

\* the loop of answer_questions from question k on
RECURSIVE AnswerFrom(_, _, _, _)
AnswerFrom(qs, k, script, used) ==
    IF k > Len(qs) THEN <<>>
    ELSE IF Cleaned(qs[k]) = EmptyStr THEN AnswerFrom(qs, k + 1, script, used)
    ELSE LET r == QueryFrom(script, used, 0)
         IN  <<PairFor(Cleaned(qs[k]), r.ret)>> \o AnswerFrom(qs, k + 1, script, r.used)

\* the loop of generate_filled_pdf from pair k on, the cursor at y0 on page pg
RECURSIVE RenderFrom(_, _, _, _)
RenderFrom(pairs, k, y0, pg) ==
    IF k > Len(pairs) THEN [raises |-> "none", lines |-> <<>>]
    ELSE LET r == PairLayout(pg, k, pairs[k], y0)
         IN  IF r.raises # "none" THEN [raises |-> r.raises, lines |-> r.lines]
             ELSE LET rest == RenderFrom(pairs, k + 1, r.y, IF r.newPage THEN pg + 1 ELSE pg)
                  IN  [raises |-> rest.raises, lines |-> r.lines \o rest.lines]

Handled(status, body, pairs, made, content) ==
    [status |-> status, body |-> body, qa_pairs |-> pairs, made |-> made, content |-> content]

\* the except clause of fill_form for the exception e
Boundary(e, pairs, made) ==
    IF BoundaryCatches(e) THEN Handled(500, e, pairs, made, <<>>)
    ELSE Handled(0, "escaped", pairs, made, <<>>)

\* fill_form from the extraction to its return, for the uploads qd and dd, the endpoint
\* answering by script, the temporary file named path and c.save() succeeding or not
FillResult(qd, dd, script, path, saveOk) ==
    LET tq == ExtractText(qd)
        qs == extract_questions(tq.text)
        td == ExtractText(dd)
        pairs == AnswerFrom(qs, 1, script, 0)
        pdf == RenderFrom(pairs, 1, TopOfPage, 1)
    IN  IF tq.raises # "none" THEN Boundary(tq.raises, <<>>, FALSE)
        ELSE IF NoQuestions(qs)
        THEN Handled(400, "No questions found in the PDF", <<>>, FALSE, <<>>)
        ELSE IF td.raises # "none" THEN Boundary(td.raises, <<>>, FALSE)
        ELSE IF ContextTooShort(td.text)
        THEN Handled(400, "Not enough context found in the data PDF", <<>>, FALSE, <<>>)
        ELSE IF pdf.raises # "none" THEN Boundary(pdf.raises, pairs, TRUE)
        ELSE IF ~saveOk THEN Boundary("OSError", pairs, TRUE)
        ELSE Handled(200, path, pairs, TRUE, pdf.lines)

SequentialVars ==
    <<pc, text, questions, ctxIn, context, AnswerState, RenderVars,
      output_path, qdoc, ddoc, response, raising>>

\* questions_bytes = await questions_pdf.read(), in request r
ReadQuestions(r) ==
    /\ reqs[r].pc = "read_questions"
    /\ \E ok \in BOOLEAN :
          reqs' = [reqs EXCEPT ![r] =
                     IF ok THEN [@ EXCEPT !.pc = "read_data"]
                     ELSE [@ EXCEPT !.pc = "responded",
                                    !.response = [status |-> 500, body |-> "ValueError"]]]
    /\ UNCHANGED <<files, tmpCount>>
    /\ UNCHANGED SequentialVars

\* data_bytes = await data_pdf.read(), in request r
ReadData(r) ==
    /\ reqs[r].pc = "read_data"
    /\ \E ok \in BOOLEAN :
          reqs' = [reqs EXCEPT ![r] =
                     IF ok THEN [@ EXCEPT !.pc = "process"]
                     ELSE [@ EXCEPT !.pc = "responded",
                                    !.response = [status |-> 500, body |-> "ValueError"]]]
    /\ UNCHANGED <<files, tmpCount>>
    /\ UNCHANGED SequentialVars

\* the rest of fill_form in request r, up to its return
Process(r) ==
    /\ reqs[r].pc = "process"
    /\ LET path == TmpName(tmpCount + 1)
           res == FillResult(reqs[r].qdoc, reqs[r].ddoc, reqs[r].script, path, reqs[r].saveOk)
       IN  /\ reqs' = [reqs EXCEPT ![r] =
                         [@ EXCEPT !.pc = IF res.status = 200 THEN "sending"
                                          ELSE IF res.status = 0 THEN "escaped"
                                          ELSE "responded",
                                   !.qa_pairs = res.qa_pairs,
                                   !.output_path = IF res.made THEN path ELSE "none",
                                   !.response = [status |-> res.status, body |-> res.body]]]
           /\ files' = IF res.made THEN [files EXCEPT ![path] = res.content] ELSE files
           /\ tmpCount' = IF res.made THEN tmpCount + 1 ELSE tmpCount
    /\ UNCHANGED SequentialVars

\* the framework sends the FileResponse of request r: the file is read now
SendFileResponse(r) ==
    /\ reqs[r].pc = "sending"
    /\ reqs' = [reqs EXCEPT ![r] =
                  [@ EXCEPT !.pc = "responded", !.sent = files[reqs[r].output_path]]]
    /\ UNCHANGED <<files, tmpCount>>
    /\ UNCHANGED SequentialVars

ScriptAnswer ==
    [kind |-> "response", status |-> 200, exc |-> "none",
     body |-> [json |-> "dict", has |-> TRUE, answer |-> <<"P">>]]

ScriptLoading == [kind |-> "response", status |-> 503, body |-> NoBody, exc |-> "none"]

ScriptTimeout == [kind |-> "exception", status |-> 0, body |-> NoBody, exc |-> "ReadTimeout"]

\* the endpoint answers at once; answers the second post of every two; never answers
Scripts == {<<ScriptAnswer>>, <<ScriptLoading, ScriptAnswer>>, <<ScriptTimeout>>}

ConcurrentQuestionDocs ==
    {NoDoc, [valid |-> TRUE, text |-> ScenarioText], [valid |-> TRUE, text |-> TwoQuestionText]}

ConcurrentDataDocs ==
    {[valid |-> TRUE, text |-> MakeContext(n)] : n \in {MinContextLen - 1, MinContextLen}}

NewRequests ==
    [pc : {"read_questions"}, qdoc : ConcurrentQuestionDocs, ddoc : ConcurrentDataDocs,
     script : Scripts, saveOk : BOOLEAN, qa_pairs : {<<>>}, output_path : {"none"},
     response : {NoResponse}, sent : {NoFile}]

InitConcurrent ==
    /\ pc = "serving"
    /\ text = EmptyStr
    /\ questions = <<>>
    /\ ctxIn = EmptyStr
    /\ context = EmptyStr
    /\ i = 0
    /\ q = EmptyStr
    /\ qa_pairs = <<>>
    /\ attempt = 0
    /\ trace = <<>>
    /\ ret = EmptyStr
    /\ calls = <<>>
    /\ log = <<>>
    /\ y = 0
    /\ page = 0
    /\ drawn = <<>>
    /\ saves = 0
    /\ rk = 0
    /\ output_path = "none"
    /\ files = [p \in Paths |-> NoFile]
    /\ tmpCount = 0
    /\ qdoc = NoDoc
    /\ ddoc = NoDoc
    /\ response = NoResponse
    /\ raising = "none"
    /\ reqs \in [Requests -> NewRequests]

NextConcurrent ==
    \/ \E r \in Requests : ReadQuestions(r)
    \/ \E r \in Requests : ReadData(r)
    \/ \E r \in Requests : Process(r)
    \/ \E r \in Requests : SendFileResponse(r)

SpecConcurrent == InitConcurrent /\ [][NextConcurrent]_vars

\* request r run alone: it gets the first temporary file
Alone(r) == FillResult(reqs[r].qdoc, reqs[r].ddoc, reqs[r].script, TmpName(1), reqs[r].saveOk)

Returned(r) == reqs[r].pc \in {"sending", "responded"} /\ reqs[r].response.body # "ValueError"

\* C15: in every interleaving of two requests, the pairs, the status and the output
\* file of a request are those of the same request run alone with the same endpoint
\* responses; the file sent is the one the request rendered; and the two requests
\* write different output paths.
C15_Isolation ==
    /\ \A r \in Requests :
          Returned(r) =>
            /\ reqs[r].qa_pairs = Alone(r).qa_pairs
            /\ reqs[r].response.status = Alone(r).status
            /\ Alone(r).made <=> reqs[r].output_path # "none"
            /\ Alone(r).made => files[reqs[r].output_path] = Alone(r).content
            /\ (reqs[r].pc = "responded" /\ reqs[r].response.status = 200)
                  => reqs[r].sent = Alone(r).content
    /\ \A r1, r2 \in Requests :
          (r1 # r2 /\ reqs[r1].output_path # "none") => reqs[r1].output_path # reqs[r2].output_path

C15_Witness ==
    /\ \A r \in Requests : reqs[r].pc = "responded" /\ reqs[r].response.status = 200
    /\ reqs[1].output_path = "tmp2"
    /\ reqs[2].output_path = "tmp1"
    /\ reqs[1].sent # reqs[2].sent
    /\ Len(reqs[1].qa_pairs) = 2
    /\ reqs[2].qa_pairs[1][2] = Placeholder

====
